---- MODULE Spec2Model ----
(***************************************************************************)
(* Conversation-history compaction engine of sorcery (src/sorcery/llm.py,  *)
(* src/sorcery/history.py): the StoryTeller's committed / uncommitted      *)
(* message partitions, the background summarizer thread, the recursive     *)
(* StorySummary.summarize algorithm and the two retry loops.               *)
(*                                                                         *)
(* A message is a record [role, content].  The text of a message is        *)
(* abstracted to the number of tokens the tokenizer counts for it, so      *)
(* token_count([msg]) is msg.content.  Delays are counted in eighths of a  *)
(* second (0.125 s = 1).  Python indices are kept 0-based; the message at  *)
(* Python index i of a list m is m[i + 1].                                 *)
(***************************************************************************)
EXTENDS Integers, Sequences, FiniteSets, TLC

VARIABLES
    done_messages,             \* StoryTeller.done_messages (committed)
    cur_messages,              \* StoryTeller.cur_messages (uncommitted)
    summarizer_thread,         \* "None" or "thread"
    threads,                   \* summarizer threads started and not joined
    launch_done_messages,      \* done_messages as the thread's start found it
    summarizing_messages,      \* attribute: [kind, val]
    summarized_done_messages,  \* attribute: [kind, val]
    fg_pc,                     \* position of the foreground path
    fg_exc,                    \* exception raised by the last foreground call
    chunks,                    \* ChatChunks returned by the last format_messages
    last_resolution,           \* how the last summarize_end resolved its job,
                               \* and how that job had ended
    w_pc,                      \* position of the summarizer thread
    w_outcome,                 \* how summarize ended in the worker
    sm_messages,               \* argument `messages` of the running summarize
    sm_depth,                  \* argument `depth` of the running summarize
    retry_delay,               \* retry_delay of simple_send_with_retries
    send_calls,                \* send_completion calls of the running
                               \* simple_send_with_retries (saturating)
    retries,                   \* retryable failures it has seen
    response,                  \* what its last send_completion call did
    sent,                      \* messages summarize_all was last called with
    scene_content,             \* what send_message returned (content tokens)
    msg_retry_delay,           \* retry_delay of send_message
    msg_retries,               \* retryable failures send_message has seen
    msg_response,              \* what its last send_completion call did
    exhausted,                 \* local flag of send_message (line 373)
    payload                    \* local `messages` of send_message (line 364)

vars == <<done_messages, cur_messages, summarizer_thread, threads,
          launch_done_messages, summarizing_messages,
          summarized_done_messages, fg_pc, fg_exc, chunks, last_resolution,
          w_pc, w_outcome, sm_messages, sm_depth, retry_delay, send_calls,
          retries, response, sent, scene_content, msg_retry_delay,
          msg_retries, msg_response, exhausted, payload>>

fgVars == <<cur_messages, fg_pc, fg_exc, chunks, last_resolution>>

sendVars == <<retry_delay, send_calls, retries, response, sent>>

summarizeVars == <<sm_messages, sm_depth>>

msgVars == <<scene_content, msg_retry_delay, msg_retries, msg_response,
             exhausted, payload>>

----------------------------------------------------------------------------
(* Bounds of the model *)

\* most messages held in done_messages and cur_messages together
MaxTurns == 6
\* longest input list of the stand-alone summarize runs
MaxInputLen == 6
\* most messages a game holds when a turn starts, the turn's two included
MaxGameTurns == 8
\* send_calls saturates here
MaxCalls == 2
\* largest token count of a summary text the service returns
MaxSummaryTokens == 2
\* StorySummary.max_tokens (1024 in the program), scaled down
max_tokens == 4
\* model.info["max_input_tokens"] (128000 and more in the program), scaled down
max_input_tokens == 9
\* the 512 tokens of history.py:64, scaled down
safety_margin == 2
\* longest zone of the stand-alone all_messages runs
MaxZoneLen == 2

(* Program constants *)
RETRY_TIMEOUT == 60
min_split == 4
max_depth == 3
\* retry_delay = 0.125, in eighths of a second
initial_retry_delay == 1
\* a content of None
NoneContent == -1

----------------------------------------------------------------------------
(* Data *)

Msg(r, c) == [role |-> r, content |-> c]

\* the messages the foreground appends: a player action, a narrator scene
Turns == {Msg("user", 1), Msg("assistant", 2)}

\* the messages of the stand-alone summarize inputs
InputTurns == Turns \cup {Msg("assistant", 1)}

SeqsUpTo(S, n) == UNION {[1..k -> S] : k \in 0..n}

\* an object attribute that may not exist yet, hold None, or hold a list
Unset == [kind |-> "unset", val |-> <<>>]
NoneVal == [kind |-> "None", val |-> <<>>]
ListVal(l) == [kind |-> "list", val |-> l]

\* what one send_completion call can do
Responses ==
    {[kind |-> "text", tokens |-> t] : t \in 1..MaxSummaryTokens}
    \cup {[kind |-> k, tokens |-> 0] :
            k \in {"empty", "retryable", "nonretryable", "context_window",
                   "malformed", "unexpected"}}

Min(a, b) == IF a < b THEN a ELSE b

\* Python's m[i], negative indices counting from the end
PyIndex(m, i) == IF i >= 0 THEN m[i + 1] ELSE m[Len(m) + i + 1]

\* Python's m[:k] and m[k:]
PyHead(m, k) == SubSeq(m, 1, Min(k, Len(m)))
PyTail(m, k) == SubSeq(m, k + 1, Len(m))

----------------------------------------------------------------------------
(* StorySummary: history.py *)

\* model.token_count([msg]); a message the tokenizer fails on counts 0
\* (llm.py lines 208-214)
token_count(msg) == IF msg.content = NoneContent THEN 0 ELSE msg.content

RECURSIVE total_tokens(_)
total_tokens(messages) ==
    IF messages = <<>> THEN 0
    ELSE token_count(Head(messages)) + total_tokens(Tail(messages))

\* the threshold itself taken as too big
too_big_inclusive(messages) == total_tokens(messages) >= max_tokens

too_big(messages) == total_tokens(messages) > max_tokens

half_max_tokens == max_tokens \div 2

\* the scan going on while the tail is at most half_max_tokens
RECURSIVE scan_tail_inclusive(_, _, _, _)
scan_tail_inclusive(messages, i, tail_tokens, split_index) ==
    IF i < 0 THEN split_index
    ELSE IF tail_tokens + token_count(PyIndex(messages, i)) <= half_max_tokens
         THEN scan_tail_inclusive(messages, i - 1,
                        tail_tokens + token_count(PyIndex(messages, i)), i)
         ELSE split_index

\* the reverse scan of lines 41-47, from Python index i downwards
RECURSIVE scan_tail(_, _, _, _)
scan_tail(messages, i, tail_tokens, split_index) ==
    IF i < 0 THEN split_index
    ELSE IF tail_tokens + token_count(PyIndex(messages, i)) < half_max_tokens
         THEN scan_tail(messages, i - 1,
                        tail_tokens + token_count(PyIndex(messages, i)), i)
         ELSE split_index

\* the alignment loop left out
align_split_off(messages, split_index) == split_index

\* the while loop of lines 50-51
RECURSIVE align_split(_, _)
align_split(messages, split_index) ==
    IF PyIndex(messages, split_index - 1).role # "user" /\ split_index > 1
    THEN align_split(messages, split_index - 1)
    ELSE split_index

\* split_index as it stands at line 53
split_of(messages) ==
    align_split(messages, scan_tail(messages, Len(messages) - 1, 0, Len(messages)))

\* lines 63-64
model_max_input_tokens == max_input_tokens - safety_margin

\* the whole head kept, whatever it counts
keep_of_all(head, total) == head

\* the loop of lines 66-74 over sized_head
RECURSIVE keep_of(_, _)
keep_of(head, total) ==
    IF head = <<>> THEN <<>>
    ELSE IF total + token_count(Head(head)) > model_max_input_tokens THEN <<>>
         ELSE <<Head(head)>> \o keep_of(Tail(head), total + token_count(Head(head)))

\* the fast path taken one token over the threshold
is_noop_over(messages, depth) ==
    total_tokens(messages) <= max_tokens + 1 /\ depth = 0

\* the fast path refused at the threshold itself
is_noop_under(messages, depth) ==
    total_tokens(messages) < max_tokens /\ depth = 0

\* line 29: the no-op fast path
is_noop(messages, depth) == total_tokens(messages) <= max_tokens /\ depth = 0

\* line 33: the first full-collapse test
collapse_early(messages, depth) == Len(messages) <= min_split \/ depth > max_depth

\* which way summarize(messages, depth) goes before it calls the service
summarize_path(messages, depth) ==
    IF is_noop(messages, depth) THEN "noop"
    ELSE IF collapse_early(messages, depth) THEN "collapse"
    ELSE IF split_of(messages) <= min_split THEN "collapse"
    ELSE "split"

\* the list summarize hands to summarize_all (lines 34, 54, 77)
summarize_request(messages, depth) ==
    IF summarize_path(messages, depth) = "split"
    THEN keep_of(PyHead(messages, split_of(messages)), 0)
    ELSE messages

\* line 98: content += msg["content"] raises TypeError on a None content
render_raises(messages) ==
    \E i \in 1..Len(messages) : messages[i].content = NoneContent

\* lines 109-110: the summary wrapped as one user message
summary_turn(text) == <<Msg("user", text)>>

\* line 82: the combined summary and tail still fits
fits(summary, tail) == total_tokens(summary) + total_tokens(tail) < max_tokens

----------------------------------------------------------------------------
(* Model.simple_send_with_retries: llm.py *)

NoResponse == [kind |-> "none", tokens |-> 0]

\* the delay growing by its first value instead of doubling
doubled_added(delay) == delay + initial_retry_delay

\* lines 259-263: the delay doubles, and the retry is dropped past the cap
doubled(delay) == delay * 2

\* the test of lines 262-263 left out
should_retry_always(delay) == TRUE

\* the delay compared with twice RETRY_TIMEOUT
should_retry_late(delay) == ~(doubled(delay) > RETRY_TIMEOUT * 8 * 2)

should_retry(delay) == ~(doubled(delay) > RETRY_TIMEOUT * 8)

\* what a usable response leads to (line 253: res is assigned and the loop
\* body ends without a return)
on_text(resp) == [next |-> "again", value |-> 0]

\* the exception is one of litellm_ex.exceptions_tuple()
classified(resp) == resp.kind \in {"retryable", "nonretryable", "context_window"}

\* ex_info.retry and ex_info.name of LiteLLMExceptions.get_ex_info
ex_info_retry(resp) == resp.kind = "retryable"
ex_info_context_window(resp) == resp.kind = "context_window"

\* an empty response handed on as if it were a text, its content None
simple_send_iteration_none_text(resp, delay) ==
    CASE resp.kind = "text" -> on_text(resp)
      [] resp.kind = "empty" -> [next |-> "return", value |-> NoneContent]
      [] classified(resp) ->
            IF ex_info_retry(resp) /\ should_retry(delay)
            THEN [next |-> "sleep", value |-> 0]
            ELSE [next |-> "None", value |-> 0]
      [] resp.kind = "malformed" -> [next |-> "None", value |-> 0]
      [] OTHER -> [next |-> "raise", value |-> 0]

\* one iteration of the while loop of lines 244-270: "again" is the next
\* iteration, "sleep" the backoff sleep before it, "None" is return None,
\* "return" a returned text, "raise" an exception that leaves the function
simple_send_iteration(resp, delay) ==
    CASE resp.kind = "text" -> on_text(resp)
      [] resp.kind = "empty" -> [next |-> "None", value |-> 0]
      [] classified(resp) ->
            IF ex_info_retry(resp) /\ should_retry(delay)
            THEN [next |-> "sleep", value |-> 0]
            ELSE [next |-> "None", value |-> 0]
      [] resp.kind = "malformed" -> [next |-> "None", value |-> 0]
      [] OTHER -> [next |-> "raise", value |-> 0]

\* the test of line 385 left out, the exception going on to the backoff
send_message_iteration_backoff(resp, delay) ==
    CASE resp.kind = "text" -> [next |-> "return", value |-> resp.tokens]
      [] resp.kind = "empty" -> [next |-> "empty", value |-> 0]
      [] classified(resp) ->
            IF should_retry(delay) THEN [next |-> "sleep", value |-> 0]
            ELSE [next |-> "None", value |-> 0]
      [] OTHER -> [next |-> "empty", value |-> 0]

\* the handler of line 408 going on to the backoff as a retryable error does
send_message_iteration_unexpected_retried(resp, delay) ==
    CASE resp.kind = "text" -> [next |-> "return", value |-> resp.tokens]
      [] resp.kind = "empty" -> [next |-> "empty", value |-> 0]
      [] classified(resp) ->
            IF ex_info_context_window(resp) THEN [next |-> "None", value |-> 0]
            ELSE IF ex_info_retry(resp) /\ should_retry(delay)
                 THEN [next |-> "sleep", value |-> 0]
                 ELSE [next |-> "None", value |-> 0]
      [] OTHER -> IF should_retry(delay) THEN [next |-> "sleep", value |-> 0]
                  ELSE [next |-> "empty", value |-> 0]

\* one iteration of the while loop of send_message (lines 375-412): the
\* function returns a text ("return"), returns "" ("empty"), leaves the loop
\* by break and returns None ("None"), or sleeps and goes round ("sleep")
send_message_iteration(resp, delay) ==
    CASE resp.kind = "text" -> [next |-> "return", value |-> resp.tokens]
      [] resp.kind = "empty" -> [next |-> "empty", value |-> 0]
      [] classified(resp) ->
            IF ex_info_context_window(resp) THEN [next |-> "None", value |-> 0]
            ELSE IF ex_info_retry(resp) /\ should_retry(delay)
                 THEN [next |-> "sleep", value |-> 0]
                 ELSE [next |-> "None", value |-> 0]
      [] OTHER -> [next |-> "empty", value |-> 0]

----------------------------------------------------------------------------
(* StoryTeller: llm.py *)

SystemMessage == <<Msg("system", 1)>>

NoChunks == [built |-> FALSE, system |-> <<>>, examples |-> <<>>,
             past_scenes |-> <<>>, cur |-> <<>>, reminder |-> <<>>]

\* ChatChunks as format_messages fills it (lines 344-351)
ChatChunks(past, cur) ==
    [built |-> TRUE, system |-> SystemMessage, examples |-> <<>>,
     past_scenes |-> past, cur |-> cur, reminder |-> <<>>]

NoResolution == [how |-> "none", job |-> "none"]
Resolution(how) == [how |-> how, job |-> w_outcome]

\* the snapshot compared with itself
snapshot_unchecked == summarizing_messages.val = summarizing_messages.val

\* the lists compared by identity: the copy is never the live list
snapshot_identical == FALSE

\* line 331: the snapshot still equals the live list
snapshot_current == summarizing_messages.val = done_messages

\* line 332 reads an attribute that __init__ (lines 276-290) never creates
adopt_raises == snapshot_current /\ summarized_done_messages.kind = "unset"

\* done_messages after lines 331-332
resolved_done ==
    IF snapshot_current THEN summarized_done_messages.val ELSE done_messages

\* what send_message hands to generate_scene: the content of line 380, the
\* "" of lines 379 and 412, or the None of a function left by break
send_message_returns(it) == IF it.next = "None" THEN NoneContent ELSE it.value

\* the frame of a joined thread is gone
FrameGone ==
    /\ w_outcome' = "none"
    /\ retries' = 0
    /\ response' = NoResponse

\* summarize_end past the join (lines 328-335), the thread having finished;
\* AttributeError leaves it at line 332
summarize_end ==
    /\ FrameGone
    /\ IF adopt_raises
       THEN /\ fg_exc' = "AttributeError"
            /\ last_resolution' = Resolution("raised")
            /\ UNCHANGED <<done_messages, summarizing_messages,
                           summarized_done_messages>>
       ELSE /\ fg_exc' = "none"
            /\ last_resolution' =
                 Resolution(IF snapshot_current THEN "adopted" ELSE "discarded")
            /\ done_messages' = resolved_done
            /\ summarizing_messages' = NoneVal
            /\ summarized_done_messages' = ListVal(<<>>)

\* lines 312-313: a thread is created and started, `alive` others being
\* alive
StartThread(alive) ==
    /\ summarizer_thread' = "thread"
    /\ threads' = alive + 1
    /\ launch_done_messages' = done_messages'
    /\ w_pc' = "started"

\* line 328 left out: the joined thread stays in the attribute
Joined_marker_kept ==
    /\ summarizer_thread' = summarizer_thread
    /\ threads' = threads - 1
    /\ launch_done_messages' = <<>>
    /\ w_pc' = "none"

\* lines 327-328 with no thread started after them
Joined ==
    /\ summarizer_thread' = "None"
    /\ threads' = threads - 1
    /\ launch_done_messages' = <<>>
    /\ w_pc' = "none"

\* summarize_end returning without a look at the thread
must_join_skipped == FALSE

\* lines 324-325: summarize_end has a thread to join
must_join == summarizer_thread # "None"

\* cur_messages += [...] (lines 359-361, 439-441, 466-468)
AppendUncommitted(turn) ==
    /\ fg_pc = "idle"
    /\ Len(done_messages) + Len(cur_messages) < MaxTurns
    /\ cur_messages' = Append(cur_messages, turn)
    /\ fg_exc' = "none"
    /\ chunks' = NoChunks
    /\ last_resolution' = NoResolution
    /\ UNCHANGED <<done_messages, summarizer_thread, threads,
                   launch_done_messages,
                   summarizing_messages, summarized_done_messages, fg_pc, w_pc,
                   w_outcome, summarizeVars, sendVars, msgVars>>

\* move_back_cur_messages (lines 337-340) up to the join of summarize_end
MoveBackCurMessages ==
    /\ fg_pc = "idle"
    /\ Len(done_messages) + Len(cur_messages) <= MaxTurns
    /\ done_messages' = done_messages \o cur_messages
    /\ fg_exc' = "none"
    /\ chunks' = NoChunks
    /\ last_resolution' = NoResolution
    /\ IF ~too_big(done_messages')
       THEN /\ cur_messages' = <<>>
            /\ UNCHANGED <<summarizer_thread, threads, launch_done_messages,
                           w_pc, fg_pc>>
       ELSE IF ~must_join
            THEN /\ StartThread(threads)
                 /\ cur_messages' = <<>>
                 /\ UNCHANGED fg_pc
            ELSE /\ fg_pc' = "move_back_join"
                 /\ UNCHANGED <<cur_messages, summarizer_thread, threads,
                                launch_done_messages, w_pc>>
    /\ UNCHANGED <<summarizing_messages, summarized_done_messages, w_outcome,
                   summarizeVars, sendVars, msgVars>>

\* move_back_cur_messages from the join on: the rest of summarize_end, the
\* new thread (lines 312-313), and line 340
MoveBackJoin ==
    /\ fg_pc = "move_back_join"
    /\ w_pc = "finished"
    /\ fg_pc' = "idle"
    /\ summarize_end
    /\ IF adopt_raises
       THEN Joined /\ UNCHANGED cur_messages
       ELSE StartThread(threads - 1) /\ cur_messages' = <<>>
    /\ UNCHANGED <<chunks, summarizeVars, retry_delay, send_calls, sent,
                   msgVars>>

\* format_messages (lines 342-353) up to the join of summarize_end
FormatMessages ==
    /\ fg_pc = "idle"
    /\ fg_exc' = "none"
    /\ last_resolution' = NoResolution
    /\ IF ~must_join
       THEN /\ chunks' = ChatChunks(done_messages, cur_messages)
            /\ UNCHANGED fg_pc
       ELSE /\ chunks' = NoChunks
            /\ fg_pc' = "format_join"
    /\ UNCHANGED <<done_messages, cur_messages, summarizer_thread, threads,
                   launch_done_messages,
                   summarizing_messages, summarized_done_messages, w_pc,
                   w_outcome, summarizeVars, sendVars, msgVars>>

\* format_messages from the join on
FormatJoin ==
    /\ fg_pc = "format_join"
    /\ w_pc = "finished"
    /\ fg_pc' = "idle"
    /\ summarize_end
    /\ Joined
    /\ chunks' = IF adopt_raises THEN NoChunks
                 ELSE ChatChunks(done_messages', cur_messages)
    /\ UNCHANGED <<cur_messages, summarizeVars, retry_delay, send_calls, sent,
                   msgVars>>

----------------------------------------------------------------------------
(* The summarizer thread: summarize_worker, summarize, summarize_all *)

\* the copy taken of the list as the start of the thread found it
WorkerSnapshot_at_launch ==
    /\ w_pc = "started"
    /\ summarizing_messages' = ListVal(launch_done_messages)
    /\ sm_messages' = launch_done_messages
    /\ sm_depth' = 0
    /\ w_pc' = "summarize"
    /\ UNCHANGED <<done_messages, summarizer_thread, threads,
                   launch_done_messages,
                   summarized_done_messages, w_outcome, fgVars, sendVars,
                   msgVars>>

\* line 317: the worker copies the live list
WorkerSnapshot ==
    /\ w_pc = "started"
    /\ summarizing_messages' = ListVal(done_messages)
    /\ sm_messages' = done_messages
    /\ sm_depth' = 0
    /\ w_pc' = "summarize"
    /\ UNCHANGED <<done_messages, summarizer_thread, threads,
                   launch_done_messages,
                   summarized_done_messages, w_outcome, fgVars, sendVars,
                   msgVars>>

\* the thread ends: the frames of summarize and simple_send_with_retries go
ThreadEnds ==
    /\ w_pc' = "finished"
    /\ sm_messages' = <<>>
    /\ sm_depth' = 0
    /\ retry_delay' = initial_retry_delay
    /\ send_calls' = 0
    /\ sent' = <<>>

\* summarize returns `result` to summarize_worker, which stores it (line 319)
WorkerReturns(result) ==
    /\ summarized_done_messages' = ListVal(result)
    /\ w_outcome' = "returned"
    /\ ThreadEnds

\* summarize_all raises ValueError (line 114); summarize_worker reports it
\* (lines 320-321) and stores nothing
WorkerRaises ==
    /\ w_outcome' = "raised"
    /\ UNCHANGED summarized_done_messages
    /\ ThreadEnds

\* summarize_all raises TypeError while rendering (line 98), which
\* summarize_worker does not catch: the thread dies
WorkerDies ==
    /\ w_outcome' = "died"
    /\ UNCHANGED summarized_done_messages
    /\ ThreadEnds

\* the result of the fast path written to done_messages by the thread
Summarize_in_place ==
    /\ w_pc = "summarize"
    /\ IF summarize_path(sm_messages, sm_depth) = "noop"
       THEN /\ WorkerReturns(sm_messages)
            /\ done_messages' = sm_messages
            /\ UNCHANGED <<retries, response>>
       ELSE IF render_raises(summarize_request(sm_messages, sm_depth))
       THEN /\ WorkerDies
            /\ UNCHANGED <<retries, response, done_messages>>
       ELSE /\ sent' = summarize_request(sm_messages, sm_depth)
            /\ retry_delay' = initial_retry_delay
            /\ send_calls' = 0
            /\ retries' = 0
            /\ response' = NoResponse
            /\ w_pc' = "send"
            /\ UNCHANGED <<w_outcome, summarized_done_messages, summarizeVars,
                           done_messages>>
    /\ UNCHANGED <<summarizer_thread, threads, launch_done_messages,
                   summarizing_messages, fgVars, msgVars>>

\* summarize(messages, depth) from its entry to the summarize_all call
\* (lines 27-77) and the rendering in it (lines 89-105), or to the return
\* of line 30
Summarize ==
    /\ w_pc = "summarize"
    /\ IF summarize_path(sm_messages, sm_depth) = "noop"
       THEN /\ WorkerReturns(sm_messages)
            /\ UNCHANGED <<retries, response>>
       ELSE IF render_raises(summarize_request(sm_messages, sm_depth))
       THEN /\ WorkerDies
            /\ UNCHANGED <<retries, response>>
       ELSE /\ sent' = summarize_request(sm_messages, sm_depth)
            /\ retry_delay' = initial_retry_delay
            /\ send_calls' = 0
            /\ retries' = 0
            /\ response' = NoResponse
            /\ w_pc' = "send"
            /\ UNCHANGED <<w_outcome, summarized_done_messages, summarizeVars>>
    /\ UNCHANGED <<done_messages, summarizer_thread, threads,
                   launch_done_messages,
                   summarizing_messages, fgVars, msgVars>>

\* summarize from the return of summarize_all with a summary on
\* (lines 34, 54, 77-86)
AfterSummary(summary) ==
    IF summarize_path(sm_messages, sm_depth) = "collapse"
    THEN WorkerReturns(summary)
    ELSE LET tail == PyTail(sm_messages, split_of(sm_messages)) IN
         IF fits(summary, tail)
         THEN WorkerReturns(summary \o tail)
         ELSE /\ sm_messages' = summary \o tail
              /\ sm_depth' = sm_depth + 1
              /\ w_pc' = "summarize"
              /\ UNCHANGED <<w_outcome, summarized_done_messages, retry_delay,
                             send_calls, sent>>

\* one send_completion call of simple_send_with_retries (lines 244-270) and
\* what follows it in summarize_all (lines 107-114) and summarize; an
\* exception that leaves simple_send_with_retries is caught at line 111 and
\* ends in the ValueError of line 114 like a returned None
SendCompletion(resp) ==
    /\ w_pc = "send"
    /\ response' = resp
    /\ retries' = IF resp.kind = "retryable" THEN retries + 1 ELSE retries
    /\ LET it == simple_send_iteration(resp, retry_delay) IN
       CASE it.next = "again" ->
              /\ send_calls' = Min(send_calls + 1, MaxCalls)
              /\ UNCHANGED <<retry_delay, sent, w_pc, w_outcome,
                             summarized_done_messages, summarizeVars>>
         [] it.next = "sleep" ->
              /\ send_calls' = Min(send_calls + 1, MaxCalls)
              /\ retry_delay' = doubled(retry_delay)
              /\ UNCHANGED <<sent, w_pc, w_outcome, summarized_done_messages,
                             summarizeVars>>
         [] it.next = "return" -> AfterSummary(summary_turn(it.value))
         [] OTHER -> WorkerRaises
    /\ UNCHANGED <<done_messages, summarizer_thread, threads,
                   launch_done_messages,
                   summarizing_messages, fgVars, msgVars>>

----------------------------------------------------------------------------
(* The game turn: generate_opening_scene, generate_scene, send_message *)

\* the prompt of a turn as a user message (lines 359-361)
Prompt == Msg("user", 1)

\* check_tokens (lines 415-425); `confirm` is the player's answer
check_tokens(messages, confirm) ==
    IF total_tokens(messages) >= max_input_tokens THEN confirm ELSE TRUE

\* the uncommitted messages put before the committed ones
all_messages_cur_first(c) ==
    c.system \o c.examples \o c.cur \o c.past_scenes \o c.reminder

\* ChatChunks.all_messages (chat_chunks.py lines 12-18)
all_messages(c) == c.system \o c.examples \o c.past_scenes \o c.cur \o c.reminder

\* send_message from the return of format_messages to the retry loop
\* (lines 364-373)
AfterFormat(confirm) ==
    /\ msg_retries' = 0
    /\ msg_response' = NoResponse
    /\ exhausted' = FALSE
    /\ msg_retry_delay' = initial_retry_delay
    /\ IF check_tokens(all_messages(chunks'), confirm)
       THEN /\ fg_pc' = "completion"
            /\ payload' = all_messages(chunks')
            /\ UNCHANGED scene_content
       ELSE /\ fg_pc' = "scene"
            /\ payload' = <<>>
            /\ scene_content' = 0

\* generate_scene / generate_opening_scene up to the join in format_messages
\* or to the retry loop of send_message (lines 429-434, 359-373)
GenerateScene(confirm) ==
    /\ fg_pc = "idle"
    /\ Len(done_messages) + Len(cur_messages) + 2 <= MaxGameTurns
    /\ cur_messages' = Append(cur_messages, Prompt)
    /\ fg_exc' = "none"
    /\ last_resolution' = NoResolution
    /\ IF ~must_join
       THEN /\ chunks' = ChatChunks(done_messages, cur_messages')
            /\ AfterFormat(confirm)
       ELSE /\ chunks' = NoChunks
            /\ fg_pc' = "send_join"
            /\ UNCHANGED msgVars
    /\ UNCHANGED <<done_messages, summarizer_thread, threads,
                   launch_done_messages,
                   summarizing_messages, summarized_done_messages, w_pc,
                   w_outcome, summarizeVars, sendVars>>

\* send_message from the join of format_messages on; an AttributeError of
\* summarize_end leaves generate_scene and is caught by the game loop
\* (game.py lines 104-111)
SendMessageJoin(confirm) ==
    /\ fg_pc = "send_join"
    /\ w_pc = "finished"
    /\ summarize_end
    /\ Joined
    /\ IF adopt_raises
       THEN /\ chunks' = NoChunks
            /\ fg_pc' = "idle"
            /\ UNCHANGED msgVars
       ELSE /\ chunks' = ChatChunks(done_messages', cur_messages)
            /\ AfterFormat(confirm)
    /\ UNCHANGED <<cur_messages, summarizeVars, retry_delay, send_calls, sent>>

\* one send_completion call of the loop of send_message (lines 375-412)
Completion(resp) ==
    /\ fg_pc = "completion"
    /\ msg_response' = resp
    /\ msg_retries' = IF ex_info_retry(resp) THEN msg_retries + 1 ELSE msg_retries
    /\ exhausted' = (classified(resp) /\ ex_info_context_window(resp))
    /\ LET it == send_message_iteration(resp, msg_retry_delay) IN
       CASE it.next = "sleep" ->
              /\ msg_retry_delay' = doubled(msg_retry_delay)
              /\ UNCHANGED <<fg_pc, scene_content, payload>>
         [] it.next = "None" ->
              /\ scene_content' = NoneContent
              /\ fg_pc' = "scene"
              /\ msg_retry_delay' = initial_retry_delay
              /\ payload' = <<>>
         [] OTHER ->
              /\ scene_content' = it.value
              /\ fg_pc' = "scene"
              /\ msg_retry_delay' = initial_retry_delay
              /\ payload' = <<>>
    /\ UNCHANGED <<done_messages, cur_messages, summarizer_thread, threads,
                   launch_done_messages,
                   summarizing_messages, summarized_done_messages, fg_exc,
                   chunks, last_resolution, w_pc, w_outcome, summarizeVars,
                   sendVars>>

\* the reply appended before the lists are merged
SceneCommit_reply_first ==
    /\ fg_pc = "scene"
    /\ ~must_join
    /\ done_messages' =
         done_messages \o cur_messages \o <<Msg("assistant", scene_content)>>
    /\ IF too_big(done_messages')
       THEN StartThread(threads)
       ELSE UNCHANGED <<summarizer_thread, threads, launch_done_messages, w_pc>>
    /\ cur_messages' = <<>>
    /\ fg_pc' = "idle"
    /\ UNCHANGED <<summarizing_messages, summarized_done_messages, fg_exc,
                   chunks, last_resolution, w_outcome, summarizeVars, sendVars,
                   msgVars>>

\* generate_scene from the return of send_message on: move_back_cur_messages
\* and the reply appended to cur_messages (lines 436-441, 463-468).  No
\* thread is alive here (format_messages joined it), so summarize_end
\* returns at line 325.
SceneCommit ==
    /\ fg_pc = "scene"
    /\ ~must_join
    /\ done_messages' = done_messages \o cur_messages
    /\ IF too_big(done_messages')
       THEN StartThread(threads)
       ELSE UNCHANGED <<summarizer_thread, threads, launch_done_messages, w_pc>>
    /\ cur_messages' = <<Msg("assistant", scene_content)>>
    /\ fg_pc' = "idle"
    /\ UNCHANGED <<summarizing_messages, summarized_done_messages, fg_exc,
                   chunks, last_resolution, w_outcome, summarizeVars, sendVars,
                   msgVars>>

----------------------------------------------------------------------------
(* The coordinator under any sequence of calls *)

Init ==
    /\ done_messages = <<>>
    /\ cur_messages = <<>>
    /\ summarizer_thread = "None"
    /\ threads = 0
    /\ launch_done_messages = <<>>
    /\ summarizing_messages = Unset
    /\ summarized_done_messages = Unset
    /\ fg_pc = "idle"
    /\ fg_exc = "none"
    /\ chunks = NoChunks
    /\ last_resolution = NoResolution
    /\ w_pc = "none"
    /\ w_outcome = "none"
    /\ sm_messages = <<>>
    /\ sm_depth = 0
    /\ retry_delay = initial_retry_delay
    /\ send_calls = 0
    /\ retries = 0
    /\ response = NoResponse
    /\ sent = <<>>
    /\ scene_content = 0
    /\ msg_retry_delay = initial_retry_delay
    /\ msg_retries = 0
    /\ msg_response = NoResponse
    /\ exhausted = FALSE
    /\ payload = <<>>

Next ==
    \/ \E turn \in Turns : AppendUncommitted(turn)
    \/ MoveBackCurMessages
    \/ MoveBackJoin
    \/ FormatMessages
    \/ FormatJoin
    \/ WorkerSnapshot
    \/ Summarize
    \/ \E resp \in Responses : SendCompletion(resp)

Spec == Init /\ [][Next]_vars

----------------------------------------------------------------------------
(* The game loop: an opening scene, then one scene per player action *)

GameNext ==
    \/ \E confirm \in BOOLEAN : GenerateScene(confirm)
    \/ \E confirm \in BOOLEAN : SendMessageJoin(confirm)
    \/ \E resp \in Responses : Completion(resp)
    \/ SceneCommit
    \/ WorkerSnapshot
    \/ Summarize
    \/ \E resp \in Responses : SendCompletion(resp)

GameSpec == Init /\ [][GameNext]_vars

\* the steps of the summarizer thread
WorkerNext ==
    \/ WorkerSnapshot
    \/ Summarize
    \/ \E resp \in Responses : SendCompletion(resp)

\* the thread is scheduled and the service answers every request, so the
\* worker goes on; a join whose thread has ended returns
GameLive ==
    /\ GameSpec
    /\ WF_vars(WorkerNext)
    /\ WF_vars(\E confirm \in BOOLEAN : SendMessageJoin(confirm))

----------------------------------------------------------------------------
(* summarize called on any list at any depth, as the worker calls it *)

\* one depth of each kind lines 29 and 33 tell apart
Depths == {0, 1, max_depth + 1}

CompactInit ==
    /\ sm_messages \in SeqsUpTo(InputTurns, MaxInputLen)
    /\ sm_depth \in Depths
    /\ done_messages = sm_messages
    /\ summarizing_messages = ListVal(sm_messages)
    /\ summarizer_thread = "thread"
    /\ threads = 1
    /\ launch_done_messages = sm_messages
    /\ w_pc = "summarize"
    /\ cur_messages = <<>>
    /\ summarized_done_messages = Unset
    /\ fg_pc = "idle"
    /\ fg_exc = "none"
    /\ chunks = NoChunks
    /\ last_resolution = NoResolution
    /\ w_outcome = "none"
    /\ retry_delay = initial_retry_delay
    /\ send_calls = 0
    /\ retries = 0
    /\ response = NoResponse
    /\ sent = <<>>
    /\ scene_content = 0
    /\ msg_retry_delay = initial_retry_delay
    /\ msg_retries = 0
    /\ msg_response = NoResponse
    /\ exhausted = FALSE
    /\ payload = <<>>

CompactNext ==
    \/ Summarize
    \/ \E resp \in Responses : SendCompletion(resp)

CompactSpec == CompactInit /\ [][CompactNext]_vars

\* the service answers every request, so a waiting call goes on
CompactLive == CompactSpec /\ WF_vars(CompactNext)

----------------------------------------------------------------------------
(* ChatChunks.all_messages called on any chunks *)

ZoneTurns == {Msg("user", 1), Msg("assistant", 2)}

Zones == SeqsUpTo(ZoneTurns, MaxZoneLen)

AssembleInit ==
    /\ chunks \in [built : {TRUE}, system : Zones, examples : Zones,
                    past_scenes : Zones, cur : Zones, reminder : Zones]
    /\ fg_pc = "assemble"
    /\ payload = <<>>
    /\ done_messages = <<>>
    /\ cur_messages = <<>>
    /\ summarizer_thread = "None"
    /\ threads = 0
    /\ launch_done_messages = <<>>
    /\ summarizing_messages = Unset
    /\ summarized_done_messages = Unset
    /\ fg_exc = "none"
    /\ last_resolution = NoResolution
    /\ w_pc = "none"
    /\ w_outcome = "none"
    /\ sm_messages = <<>>
    /\ sm_depth = 0
    /\ retry_delay = initial_retry_delay
    /\ send_calls = 0
    /\ retries = 0
    /\ response = NoResponse
    /\ sent = <<>>
    /\ scene_content = 0
    /\ msg_retry_delay = initial_retry_delay
    /\ msg_retries = 0
    /\ msg_response = NoResponse
    /\ exhausted = FALSE

\* messages = chunks.all_messages() (llm.py line 364)
AllMessages ==
    /\ fg_pc = "assemble"
    /\ payload' = all_messages(chunks)
    /\ fg_pc' = "assembled"
    /\ UNCHANGED <<done_messages, cur_messages, summarizer_thread, threads,
                   launch_done_messages, summarizing_messages,
                   summarized_done_messages, fg_exc, chunks, last_resolution,
                   w_pc, w_outcome, summarizeVars, sendVars, scene_content,
                   msg_retry_delay, msg_retries, msg_response, exhausted>>

AssembleNext == AllMessages

AssembleSpec == AssembleInit /\ [][AssembleNext]_vars

----------------------------------------------------------------------------
(* Properties *)

\* a step in which summarize_end resolves a joined job
Resolving == fg_pc \in {"move_back_join", "format_join", "send_join"} /\ fg_pc' = "idle"

IsPrefix(a, b) == Len(a) <= Len(b) /\ SubSeq(b, 1, Len(a)) = a

\* C1: when done_messages was appended to after the job took its snapshot,
\* the resolution discards the job's result and leaves done_messages as it
\* is: the snapshot followed by the appended messages.
C1_StalenessDiscard ==
    [][(Resolving /\ Len(done_messages) > Len(summarizing_messages.val))
        => /\ last_resolution'.how = "discarded"
           /\ done_messages' = done_messages
           /\ IsPrefix(summarizing_messages.val, done_messages')]_vars

C1_Witness ==
    /\ last_resolution.how = "discarded"
    /\ done_messages # <<>>

\* C2: when the job failed, the resolution leaves done_messages as it was
\* just before it.
C2_FailureKeepsCommitted ==
    [][(Resolving /\ w_outcome = "raised") => done_messages' = done_messages]_vars

\* C3: at most one summarizer thread is started and not yet joined.
C3_OneJobInFlight == threads <= 1

C3_Witness ==
    /\ last_resolution.how # "none"
    /\ w_pc = "started"
    /\ threads = 1

\* C4: when format_messages returns, no job is in flight, and past_scenes is
\* done_messages as it was before the resolution or the result of the job.
C4_ResolvedChunks ==
    [][(fg_pc \in {"idle", "format_join"} /\ chunks'.built /\ ~chunks.built)
        => /\ threads' = 0
           /\ \/ chunks'.past_scenes = done_messages
              \/ /\ w_outcome = "returned"
                 /\ chunks'.past_scenes = summarized_done_messages.val]_vars

\* C5: a summarization request answered with a usable text on the first
\* attempt ends simple_send_with_retries after that one call, and on the
\* full-collapse path summarize returns one user message holding that text.
C5_OneCallOneTurn ==
    [][(w_pc = "send" /\ send_calls = 0 /\ retries = 0 /\ response'.kind = "text")
        => /\ w_pc' # "send"
           /\ summarize_path(sm_messages, sm_depth) = "collapse"
                => /\ w_outcome' = "returned"
                   /\ summarized_done_messages' =
                        ListVal(<<Msg("user", response'.tokens)>>)]_vars

\* C6: summarize never goes deeper than max_depth + 1 and comes to an end,
\* the service answering every request.
C6_Terminates ==
    /\ [](sm_depth <= max_depth + 1)
    /\ <>(w_pc = "finished")

\* C7: whenever summarize returns, the token counts of the returned messages
\* sum to at most max_tokens, or exactly one message is returned.
C7_SizeConvergence ==
    (w_pc = "finished" /\ w_outcome = "returned")
        => \/ total_tokens(summarized_done_messages.val) <= max_tokens
           \/ Len(summarized_done_messages.val) = 1

C7_Witness ==
    /\ w_pc = "finished"
    /\ w_outcome = "returned"
    /\ Len(summarized_done_messages.val) > 1

\* C8: on the split path the message just before the kept tail has role user.
C8_BoundaryAlignment ==
    (w_pc = "send" /\ summarize_path(sm_messages, sm_depth) = "split")
        => /\ split_of(sm_messages) > min_split
           /\ PyIndex(sm_messages, split_of(sm_messages) - 1).role = "user"

C8_Witness ==
    /\ w_pc = "send"
    /\ summarize_path(sm_messages, sm_depth) = "split"
    /\ PyTail(sm_messages, split_of(sm_messages)) # <<>>

\* C9: summarize at depth 0 on messages whose token counts sum to at most
\* max_tokens returns the same list and makes no completion call.
C9_NoOp ==
    [][(w_pc = "summarize" /\ sm_depth = 0
            /\ total_tokens(sm_messages) <= max_tokens)
        => /\ w_pc' = "finished"
           /\ w_outcome' = "returned"
           /\ summarized_done_messages' = ListVal(sm_messages)
           /\ send_calls' = 0
           /\ response' = NoResponse]_vars

C9_Witness ==
    /\ w_pc = "finished"
    /\ w_outcome = "returned"
    /\ summarized_done_messages.val = summarizing_messages.val
    /\ total_tokens(summarized_done_messages.val) = max_tokens
    /\ response = NoResponse

\* C10: neither retry loop sees more than 10 retryable failures, so a call
\* whose every attempt fails that way is given up after at most 10 attempts.
C10_RetryBound ==
    /\ retries <= 10
    /\ msg_retries <= 10
    /\ (w_pc = "send" => retries < 10)
    /\ (fg_pc = "completion" => msg_retries < 10)

C10_Witness ==
    /\ fg_pc = "scene"
    /\ msg_response.kind = "retryable"
    /\ scene_content = NoneContent
    /\ msg_retries >= 9

C10_WorkerWitness ==
    /\ w_pc = "finished"
    /\ response.kind = "retryable"
    /\ w_outcome = "raised"
    /\ retries >= 9

\* a backoff sleep of send_message (line 406) and of
\* simple_send_with_retries (line 267)
MsgSleeps ==
    fg_pc = "completion" /\ fg_pc' = "completion" /\ msg_retry_delay' # msg_retry_delay

WorkerSleeps == w_pc = "send" /\ w_pc' = "send" /\ retry_delay' # retry_delay

ContextWindow == [kind |-> "context_window", tokens |-> 0]

Retryable == [kind |-> "retryable", tokens |-> 0]

\* C11: a send_completion call that fails as context-window-exceeded ends the
\* retry loop it was made in: the function returns, no attempt follows, no
\* backoff sleep is taken, and the failure is not counted as a retry.
C11_ContextWindowReturns ==
    [][/\ (fg_pc = "completion" /\ msg_response' = ContextWindow)
            => /\ fg_pc' = "scene"
               /\ ~MsgSleeps
               /\ msg_retries' = msg_retries
               /\ scene_content' = NoneContent
       /\ (w_pc = "send" /\ response' = ContextWindow)
            => /\ w_pc' = "finished"
               /\ ~WorkerSleeps
               /\ retries' = retries]_vars

C11_Witness ==
    /\ fg_pc = "scene"
    /\ msg_response = ContextWindow
    /\ msg_retries = 0
    /\ scene_content = NoneContent

\* C12: what send_message returns when the retries of a retryable failure
\* ran out differs from what it returns for a context-window-exceeded
\* failure.
C12_DistinctOutcomes ==
    (fg_pc = "scene" /\ msg_response = Retryable)
        => scene_content #
             send_message_returns(
                 send_message_iteration(ContextWindow, initial_retry_delay))

\* C13: when a retryable failure finds the doubled delay past RETRY_TIMEOUT
\* (delays are in eighths of a second), the retries have run out: the loop ends
\* with a failure value handed to the caller (None) and no exception leaves
\* it: send_message returns to generate_scene, and summarize_all gets the
\* None it turns into its ValueError.
C13_ExhaustedReturns ==
    [][/\ (fg_pc = "completion" /\ msg_response' = Retryable
              /\ msg_retries' = msg_retries + 1
              /\ msg_retry_delay * 2 > RETRY_TIMEOUT * 8)
            => /\ fg_pc' = "scene"
               /\ scene_content' = NoneContent
               /\ fg_exc' = "none"
       /\ (w_pc = "send" /\ response' = Retryable
              /\ retries' = retries + 1
              /\ retry_delay * 2 > RETRY_TIMEOUT * 8)
            => /\ w_pc' = "finished"
               /\ w_outcome' = "raised"]_vars

C13_Witness ==
    /\ fg_pc = "idle"
    /\ fg_exc = "none"
    /\ msg_response = Retryable
    /\ msg_retries >= 9
    /\ cur_messages = <<Msg("assistant", NoneContent)>>

\* C14: when move_back_cur_messages returns, done_messages is what it was
\* at the call followed by the messages cur_messages held, in their order,
\* and cur_messages is empty.  (A call that has to join appends at its first
\* step, so at its last step done_messages already holds both.)
C14_CommitEffect ==
    [][/\ (fg_pc = "idle" /\ fg_pc' = "idle" /\ cur_messages # <<>>
              /\ cur_messages' = <<>>)
            => done_messages' = done_messages \o cur_messages
       /\ (fg_pc = "move_back_join" /\ fg_pc' = "idle" /\ fg_exc' = "none")
            => /\ done_messages' = done_messages
               /\ cur_messages' = <<>>]_vars

\* a summarizer thread is started
Launch == w_pc' = "started" /\ w_pc # "started"

\* the first step of move_back_cur_messages, a step of the foreground in
\* which the lists are merged
CommitStep ==
    /\ fg_pc = "idle"
    /\ fg_pc' \in {"idle", "move_back_join"}
    /\ chunks' = NoChunks
    /\ done_messages' = done_messages \o cur_messages
    /\ Len(cur_messages') <= Len(cur_messages)
    /\ w_pc' = w_pc \/ Launch
    /\ UNCHANGED <<summarizing_messages, summarizeVars, sendVars>>

\* its last step when it had to join a thread
CommitJoinStep == fg_pc = "move_back_join" /\ fg_pc' = "idle"

\* C15 as stated: a thread is started exactly by a move_back_cur_messages
\* that finds the merged done_messages over max_tokens and no thread in
\* flight.
C15_LaunchRule ==
    [][Launch <=> (/\ CommitStep
                   /\ total_tokens(done_messages') > max_tokens
                   /\ threads = 0)]_vars

\* C15 amended: a thread is started exactly by a move_back_cur_messages that
\* finds the merged done_messages over max_tokens: at once when no thread
\* is in flight, and otherwise after it has waited for the thread in flight
\* and resolved it.  At or under max_tokens it starts none and does not wait.
C15_LaunchRuleAmended ==
    [][/\ Launch
            => \/ /\ CommitStep
                  /\ total_tokens(done_messages') > max_tokens
                  /\ threads = 0
               \/ /\ CommitJoinStep
                  /\ total_tokens(done_messages) > max_tokens
                  /\ w_pc = "finished"
                  /\ threads' = 1
       /\ (CommitStep /\ total_tokens(done_messages') > max_tokens)
            => IF threads = 0 THEN Launch ELSE fg_pc' = "move_back_join"
       /\ (CommitStep /\ total_tokens(done_messages') <= max_tokens)
            => ~Launch /\ fg_pc' = "idle" /\ threads' = threads
       /\ (CommitJoinStep /\ fg_exc' = "none") => Launch]_vars

C15_Witness ==
    /\ last_resolution.how = "discarded"
    /\ w_pc = "started"
    /\ cur_messages = <<>>
    /\ total_tokens(done_messages) > max_tokens

C15_AtThresholdWitness ==
    /\ total_tokens(done_messages) = max_tokens
    /\ cur_messages = <<>>
    /\ threads = 0
    /\ done_messages # <<>>

\* the step of line 317
SnapshotStep == w_pc = "started" /\ w_pc' = "summarize"

\* C16 as stated: the list the worker copies, and summarize works on, is
\* done_messages as it was when move_back_cur_messages started the thread.
C16_SnapshotAtLaunch ==
    [][SnapshotStep
        => /\ summarizing_messages' = ListVal(launch_done_messages)
           /\ sm_messages' = launch_done_messages]_vars

\* C16 amended: the list the worker copies is done_messages as it is when
\* the worker runs line 317: the list of the start of the thread, followed
\* by whatever was committed between the start and the copy.
C16_SnapshotAtCopy ==
    [][SnapshotStep
        => /\ summarizing_messages' = ListVal(done_messages)
           /\ sm_messages' = done_messages
           /\ IsPrefix(launch_done_messages, done_messages)]_vars

C16_Witness ==
    /\ w_pc = "summarize"
    /\ summarizing_messages = ListVal(done_messages)
    /\ Len(launch_done_messages) < Len(done_messages)

\* the step in which generate_scene / generate_opening_scene returns
TurnCompletes == fg_pc = "scene" /\ fg_pc' = "idle"

Reply == Msg("assistant", scene_content)

\* C17 as stated: when the turn completes, the reply is the last message of
\* done_messages and cur_messages is empty.
C17_ReplyCommitted ==
    [][TurnCompletes
        => /\ cur_messages' = <<>>
           /\ done_messages' # <<>>
           /\ PyIndex(done_messages', -1) = Reply]_vars

\* C17 amended: the lists are merged before the reply is appended, so when
\* the turn completes done_messages has grown by the messages cur_messages
\* held, the prompt of the turn last, and cur_messages holds the reply alone.
C17_ReplyAfterCommit ==
    [][TurnCompletes
        => /\ done_messages' = done_messages \o cur_messages
           /\ PyIndex(done_messages', -1) = Prompt
           /\ cur_messages' = <<Reply>>]_vars

C17_Witness ==
    /\ fg_pc = "idle"
    /\ msg_response.kind = "text"
    /\ cur_messages = <<Msg("assistant", msg_response.tokens)>>
    /\ Len(done_messages) >= 3
    /\ PyIndex(done_messages, -1) = Prompt
    /\ PyIndex(done_messages, -2).role = "assistant"

\* the foreground is blocked in Thread.join
Waiting(pc) == fg_pc = pc /\ w_pc # "finished"

\* C18 as stated: move_back_cur_messages is never blocked in a join.
C18_CommitNeverWaits == ~Waiting("move_back_join")

\* C18 amended: move_back_cur_messages returns in the step that starts a
\* thread, so it never waits for the thread it starts; it joins a thread
\* exactly when one is in flight and the merged done_messages is over
\* max_tokens, and then it starts none before that thread is joined.
C18_CommitWaitsForOldJob ==
    [][/\ Launch => fg_pc' = "idle"
       /\ CommitStep
            => (fg_pc' = "move_back_join"
                  <=> /\ threads = 1
                      /\ total_tokens(done_messages') > max_tokens)
       /\ (CommitStep /\ fg_pc' = "move_back_join") => ~Launch
       /\ (fg_pc = "move_back_join" /\ fg_pc' # fg_pc) => w_pc = "finished"]_vars

C18_Witness ==
    /\ Waiting("move_back_join")
    /\ w_pc = "send"
    /\ response = Retryable

\* C19: summarize_end, joining a job that returned a result and whose
\* snapshot equals done_messages, makes done_messages that result; and
\* whatever it does with the result, the joined thread is no longer in
\* summarizer_thread when it is left (a move_back_cur_messages that goes on
\* puts the thread it starts there).
C19_AdoptAndClear ==
    [][Resolving
        => /\ (w_outcome = "returned" /\ snapshot_current)
                => /\ done_messages' = summarized_done_messages.val
                   /\ last_resolution'.how = "adopted"
           /\ IF fg_pc = "move_back_join" /\ fg_exc' = "none"
              THEN Launch /\ threads' = 1
              ELSE summarizer_thread' = "None" /\ threads' = 0]_vars

C19_Witness ==
    /\ last_resolution = [how |-> "adopted", job |-> "returned"]
    /\ summarizer_thread = "None"
    /\ done_messages # <<>>
    /\ chunks.built
    /\ chunks.past_scenes = done_messages

\* C20: a format_messages that joins a job that failed raises nothing,
\* returns its chunks and leaves no thread in flight.
C20_FormatAfterFailure ==
    [][(fg_pc \in {"format_join", "send_join"} /\ fg_pc' # fg_pc
            /\ w_outcome = "raised")
        => /\ fg_exc' = "none"
           /\ chunks'.built
           /\ threads' = 0]_vars

\* the job the last call resolved had failed
FailedJobResolved ==
    /\ last_resolution.how # "none"
    /\ last_resolution.job \in {"raised", "died"}

\* C21: the move_back_cur_messages that follows the resolution of a failed
\* job finds the merged done_messages over max_tokens and starts a thread.
C21_RetriedNextCommit ==
    [][(CommitStep /\ FailedJobResolved /\ threads = 0)
        => /\ total_tokens(done_messages') > max_tokens
           /\ Launch]_vars

\* C22 as stated: every list handed to summarize_all counts at most
\* model_max_input_tokens.
C22_RequestUnderCeiling ==
    w_pc = "send" => total_tokens(sent) <= model_max_input_tokens

\* C22 amended: on the split path the list handed to summarize_all is the
\* longest run of messages from the start of the head that counts at most
\* model_max_input_tokens; on the full-collapse paths (lines 34 and 54) it
\* is the whole list, whatever it counts.
C22_SplitRequestUnderCeiling ==
    w_pc = "send"
        => IF summarize_path(sm_messages, sm_depth) = "split"
           THEN LET head == PyHead(sm_messages, split_of(sm_messages)) IN
                /\ total_tokens(sent) <= model_max_input_tokens
                /\ IsPrefix(sent, head)
                /\ sent # head
                     => total_tokens(PyHead(head, Len(sent) + 1))
                            > model_max_input_tokens
           ELSE sent = sm_messages

C22_Witness ==
    /\ w_pc = "send"
    /\ summarize_path(sm_messages, sm_depth) = "split"
    /\ sent # <<>>
    /\ Len(sent) < split_of(sm_messages)

\* a step of the summarizer thread
WorkerStep ==
    /\ w_pc \in {"started", "summarize", "send"}
    /\ \/ w_pc' # w_pc
       \/ sendVars' # sendVars
       \/ summarizeVars' # summarizeVars

\* C23: no step of the summarizer thread changes done_messages or
\* cur_messages, and once the copy of line 317 is taken no step of it changes
\* that copy.
C23_WorkerFrame ==
    [][WorkerStep
        => /\ done_messages' = done_messages
           /\ cur_messages' = cur_messages
           /\ w_pc # "started"
                => summarizing_messages' = summarizing_messages]_vars

C23_Witness ==
    /\ w_pc = "finished"
    /\ w_outcome = "returned"
    /\ summarizing_messages.kind = "list"
    /\ summarizing_messages.val # done_messages
    /\ summarized_done_messages.val = summarizing_messages.val

\* C24: in the game every summarize_end that joins a thread finds the
\* thread's snapshot equal to done_messages, and discards no result as stale.
C24_NeverStaleInGame ==
    [][(fg_pc = "send_join" /\ fg_pc' # fg_pc)
        => /\ summarizing_messages.kind = "list"
           /\ summarizing_messages.val = done_messages
           /\ last_resolution'.how \in {"adopted", "raised"}]_vars

C24_Witness ==
    /\ last_resolution.how \in {"adopted", "raised"}
    /\ last_resolution.job \in {"raised", "died"}
    /\ fg_pc = "idle"
    /\ Len(done_messages) >= 3

\* the messages of list m from Python index `from` on, `n` of them
Slice(m, from, n) == SubSeq(m, from + 1, from + n)

\* C25: all_messages returns the messages of system, examples, past_scenes,
\* cur and reminder, in that order of zones and each zone in its own order,
\* nothing else, and leaves the chunks as they were.
C25_Assembly ==
    [][(fg_pc = "assemble" /\ fg_pc' = "assembled")
        => LET c == chunks
               n1 == Len(c.system)
               n2 == n1 + Len(c.examples)
               n3 == n2 + Len(c.past_scenes)
               n4 == n3 + Len(c.cur)
               n5 == n4 + Len(c.reminder)
           IN /\ Len(payload') = n5
              /\ Slice(payload', 0, Len(c.system)) = c.system
              /\ Slice(payload', n1, Len(c.examples)) = c.examples
              /\ Slice(payload', n2, Len(c.past_scenes)) = c.past_scenes
              /\ Slice(payload', n3, Len(c.cur)) = c.cur
              /\ Slice(payload', n4, Len(c.reminder)) = c.reminder
              /\ chunks' = chunks]_vars

C25_Witness ==
    /\ fg_pc = "assembled"
    /\ chunks.examples = <<>>
    /\ chunks.system = <<Msg("user", 1)>>
    /\ chunks.past_scenes = <<Msg("user", 1), Msg("assistant", 2)>>
    /\ chunks.cur = <<Msg("assistant", 2), Msg("user", 1)>>
    /\ chunks.reminder = <<Msg("assistant", 2)>>
    /\ Len(payload) = 6

\* C26 as stated: the first sleep lasts initial_retry_delay (0.125 s), each
\* later sleep twice the one before, and no sleep lasts more than
\* RETRY_TIMEOUT.  The delay slept is the value the step leaves in
\* retry_delay (lines 261-267, 391-406).
C26_RetryDelays ==
    [][/\ MsgSleeps
            => /\ msg_retries = 0 => msg_retry_delay' = initial_retry_delay
               /\ msg_retries > 0 => msg_retry_delay' = 2 * msg_retry_delay
               /\ msg_retry_delay' <= RETRY_TIMEOUT * 8
       /\ WorkerSleeps
            => /\ retries = 0 => retry_delay' = initial_retry_delay
               /\ retries > 0 => retry_delay' = 2 * retry_delay
               /\ retry_delay' <= RETRY_TIMEOUT * 8]_vars

\* C26 amended: the first sleep lasts twice initial_retry_delay (0.25 s),
\* each later sleep twice the one before, and no sleep lasts more than
\* RETRY_TIMEOUT (the longest is 32 s).
C26_RetryDelaysDoubledFirst ==
    [][/\ MsgSleeps
            => /\ msg_retries = 0 => msg_retry_delay' = 2 * initial_retry_delay
               /\ msg_retries > 0 => msg_retry_delay' = 2 * msg_retry_delay
               /\ msg_retry_delay' <= RETRY_TIMEOUT * 8
               /\ msg_retry_delay' <= 32 * 8
       /\ WorkerSleeps
            => /\ retries = 0 => retry_delay' = 2 * initial_retry_delay
               /\ retries > 0 => retry_delay' = 2 * retry_delay
               /\ retry_delay' <= RETRY_TIMEOUT * 8
               /\ retry_delay' <= 32 * 8]_vars

C26_Witness ==
    /\ fg_pc = "completion"
    /\ msg_response = Retryable
    /\ msg_retries = 8
    /\ msg_retry_delay = 32 * 8

C26_WorkerWitness ==
    /\ w_pc = "send"
    /\ response = Retryable
    /\ retries = 1
    /\ retry_delay = 2 * initial_retry_delay

\* C27: summarize on a list of at most min_split messages that is not
\* returned as it is, or at a depth over max_depth, hands the whole list to
\* summarize_all, and the text the service answers with comes back as the
\* one user message summarize returns.
C27_FullCollapse ==
    [][(/\ w_pc = "send"
        /\ collapse_early(sm_messages, sm_depth)
        /\ response'.kind = "text")
        => /\ sent = sm_messages
           /\ w_pc' = "finished"
           /\ w_outcome' = "returned"
           /\ summarized_done_messages' =
                ListVal(<<Msg("user", response'.tokens)>>)]_vars

\* the call of simple_send_with_retries ends with no text: the response was
\* empty, the error cannot be retried, or the retries have run out
NoUsableText ==
    /\ w_pc = "send"
    /\ \/ response'.kind \in {"empty", "nonretryable"}
       \/ /\ response' = Retryable
          /\ retries' = retries + 1
          /\ retry_delay * 2 > RETRY_TIMEOUT * 8

HasContent(l) == \A i \in 1..Len(l) : l[i].content # NoneContent

\* C28: when the summarization call ends with no text, summarize_all raises
\* its ValueError, which ends summarize with no result stored; and a result
\* stored after a call holds no message whose content is None.
C28_NoTextRaises ==
    [][/\ NoUsableText
            => /\ w_pc' = "finished"
               /\ w_outcome' = "raised"
               /\ summarized_done_messages' = summarized_done_messages
       /\ (/\ w_pc = "send"
           /\ w_pc' = "finished"
           /\ w_outcome' = "returned")
            => HasContent(summarized_done_messages'.val)]_vars

C28_Witness ==
    /\ w_pc = "finished"
    /\ w_outcome = "raised"
    /\ response.kind = "nonretryable"
    /\ summarized_done_messages = Unset
    /\ Len(launch_done_messages) > min_split

\* the exceptions outside LiteLLMExceptions.exceptions_tuple()
Unclassified == {"malformed", "unexpected"}

\* C29: a send_completion call that fails with an exception outside the
\* classified ones ends the retry loop it was made in at once: send_message
\* shows the error and returns "", summarize_all raises, and neither loop
\* sleeps, counts a retry or makes another attempt.
C29_UnclassifiedSurfaced ==
    [][/\ (fg_pc = "completion" /\ msg_response'.kind \in Unclassified)
            => /\ fg_pc' = "scene"
               /\ ~MsgSleeps
               /\ msg_retries' = msg_retries
               /\ scene_content' = 0
       /\ (w_pc = "send" /\ response'.kind \in Unclassified)
            => /\ w_pc' = "finished"
               /\ w_outcome' = "raised"
               /\ ~WorkerSleeps
               /\ retries' = retries]_vars

C29_Witness ==
    /\ fg_pc = "scene"
    /\ msg_response.kind = "unexpected"
    /\ msg_retries = 0
    /\ scene_content = 0
    /\ Len(done_messages) >= 2

C29_WorkerWitness ==
    /\ w_pc = "finished"
    /\ w_outcome = "raised"
    /\ response.kind = "unexpected"
    /\ retries = 0

\* C30: on the split path a text answered by the service becomes the one
\* user message `summary`; when summary and tail count under max_tokens,
\* summarize returns summary followed by messages[split_index:], and
\* otherwise it goes on with that same list at depth + 1.
C30_SplitResult ==
    [][(/\ w_pc = "send"
        /\ summarize_path(sm_messages, sm_depth) = "split"
        /\ response'.kind = "text")
        => LET summary == <<Msg("user", response'.tokens)>>
               tail == PyTail(sm_messages, split_of(sm_messages))
           IN  IF total_tokens(summary) + total_tokens(tail) < max_tokens
               THEN /\ w_pc' = "finished"
                    /\ w_outcome' = "returned"
                    /\ summarized_done_messages' = ListVal(summary \o tail)
               ELSE /\ w_pc' = "summarize"
                    /\ sm_messages' = summary \o tail
                    /\ sm_depth' = sm_depth + 1]_vars

\* split_index as the scan of lines 41-47 leaves it, before the alignment
scanned_of(messages) ==
    scan_tail(messages, Len(messages) - 1, 0, Len(messages))

\* summarize is on the split path, its request to the service under way
OnSplitPath ==
    /\ w_pc = "send"
    /\ summarize_path(sm_messages, sm_depth) = "split"

\* C31 as claimed: on the split path the tail messages[split_index:], the
\* alignment done, counts strictly less than half of max_tokens.
C31_TailUnderHalf ==
    OnSplitPath
        => 2 * total_tokens(PyTail(sm_messages, split_of(sm_messages)))
             < max_tokens

\* C31: on the split path the tail the reverse scan picks counts strictly
\* less than half of max_tokens; the alignment only moves split_index down,
\* and every message it adds in front of that tail is not a user message.
C31_ScannedTailUnderHalf ==
    OnSplitPath
        => LET scanned == scanned_of(sm_messages)
               aligned == split_of(sm_messages)
           IN  /\ 2 * total_tokens(PyTail(sm_messages, scanned)) < max_tokens
               /\ aligned <= scanned
               /\ \A i \in aligned..(scanned - 1) :
                      PyIndex(sm_messages, i).role # "user"
               /\ PyIndex(sm_messages, aligned - 1).role = "user"

C31_Witness ==
    /\ OnSplitPath
    /\ split_of(sm_messages) < scanned_of(sm_messages)
    /\ PyTail(sm_messages, split_of(sm_messages)) # <<>>
    /\ sent = keep_of(PyHead(sm_messages, split_of(sm_messages)), 0)

\* a job has been launched and its thread has not ended
JobRunning == w_pc \in {"started", "summarize", "send"}

\* C32: every launched job comes to its end and the join of summarize_end
\* returns, the thread being scheduled and the service answering every
\* request.
C32_JobFinishes ==
    /\ JobRunning ~> (w_pc = "finished")
    /\ (fg_pc = "send_join") ~> (fg_pc # "send_join")

\* C33: every message of cur_messages and done_messages has a text as its
\* content, and the reply of a turn whose send_completion calls ended in a
\* classified failure is the empty text, never None.
C33_TurnsHaveText ==
    /\ HasContent(cur_messages)
    /\ HasContent(done_messages)
    /\ (fg_pc = "scene" /\ classified(msg_response)) => scene_content = 0

====
